---- MODULE Spec2Model ----
(***************************************************************************)
(* The embedded secure control server of PicoTorrent                       *)
(* (src/src/client/ws/websocket_server.cpp): token provisioning in the     *)
(* constructor, the network thread started by start() and joined by        *)
(* stop(), and the validate / open / message / close / tls-init handlers   *)
(* the websocket endpoint dispatches on that thread.                       *)
(***************************************************************************)
EXTENDS Integers, Sequences, FiniteSets, TLC

\* ---------------------------------------------------------------- bounds
\* Connection objects the endpoint creates over a whole run.
MaxConns == 2
\* Server instances constructed (one after the other) in a run.
MaxConstructions == 2
\* Calls of start() in a run, all server instances together.
MaxStarts == 2

\* Changes of websocket_access_token others make in the configuration store.
MaxCfgChanges == 1

\* #define DEFAULT_TOKEN_SIZE 20
DEFAULT_TOKEN_SIZE == 20

Handles == 1..MaxConns

\* ------------------------------------------------------- strings (tokens)
\* A std::string is a sequence of characters; two characters are enough to
\* tell equal, prefix, extension and same-length-different strings apart.
Rep(n, c) == [i \in 1..n |-> c]
RepEnd(n, c, d) == [i \in 1..n |-> IF i = n THEN d ELSE c]
EmptyString == << >>
PreToken == <<1, 2>>
GenTokenA == Rep(DEFAULT_TOKEN_SIZE, 1)
GenTokenB == RepEnd(DEFAULT_TOKEN_SIZE, 1, 2)

\* std::string::empty
empty(s) == Len(s) = 0

\* std::string::compare: negative, zero or positive by lexicographic order.
RECURSIVE compare(_, _)
compare(a, b) ==
    IF empty(a) /\ empty(b) THEN 0
    ELSE IF empty(a) THEN -1
    ELSE IF empty(b) THEN 1
    ELSE IF Head(a) < Head(b) THEN -1
    ELSE IF Head(a) > Head(b) THEN 1
    ELSE compare(Tail(a), Tail(b))

\* A handshake request either lacks the X-PicoTorrent-Token header or
\* carries it with some value.
NoHeader == [present |-> FALSE, value |-> EmptyString]
HeaderValues ==
    { EmptyString, PreToken, <<1>>, <<1, 2, 1>>, GenTokenA }
Requests ==
    {NoHeader} \cup {[present |-> TRUE, value |-> v] : v \in HeaderValues}

\* connection->get_request_header(name): the value, or "" when the request
\* has no such header.
get_request_header(req) == IF req.present THEN req.value ELSE EmptyString

\* on_validate without the test of lines 83-86 for an empty header value.
on_validate_NoEmptyCheck(req, configured) ==
    compare(configured, get_request_header(req)) = 0

\* on_validate comparing only the first token.size() characters of the
\* configured token: configured_token_.compare(0, token.size(), token).
on_validate_PrefixCompare(req, configured) ==
    LET token == get_request_header(req)
        n == IF Len(token) < Len(configured) THEN Len(token) ELSE Len(configured)
    IN  IF empty(token) THEN FALSE
        ELSE compare(SubSeq(configured, 1, n), token) = 0

\* on_validate returning the result of compare as the bool: line 88 without
\* "== 0".
on_validate_CompareAsBool(req, configured) ==
    LET token == get_request_header(req)
    IN  IF empty(token) THEN FALSE ELSE compare(configured, token) # 0

\* websocket_server::on_validate, as a function of the request and of
\* configured_token_.
on_validate(req, configured) ==
    LET token == get_request_header(req)
    IN  IF empty(token) THEN FALSE ELSE compare(configured, token) = 0

\* random_string_generator::generate(length): a string of `length`
\* characters, or nothing when the random source yields nothing.
generate(length) == { Rep(length, 1), RepEnd(length, 1, 2), EmptyString }

\* ------------------------------------------------------ certificate file
NoFile == "absent"
PemValid == "pem"
PemCorrupt == "corrupt"
PemGenerated == "generated"
\* A file written in part: cut where the PEM reader fails on it, or cut
\* short of trailing bytes only that the reader does not need.
PemTruncated == "partial, does not parse"
PemShort == "partial, parses"

\* pal::file_exists
file_exists(f) == f # NoFile

\* certificate_manager::generate(): the bytes of a fresh self-signed
\* certificate and key.
certificate_manager_generate == PemGenerated

\* on_tls_init generating the certificate on every call, without the test of
\* line 104.
MustWriteCertificate_Always(f) == TRUE

\* on_tls_init, lines 104-110: the file is written only when none exists.
MustWriteCertificate(f) == ~file_exists(f)

\* Lines 108-109: std::ofstream co(file); co.write(bytes). The state of the
\* stream is never tested: the file gets the bytes, or stays as it was when
\* it cannot be opened for writing, or is left with a part of them.
WriteOutcomes(f, bytes) == { bytes, f, PemTruncated, PemShort }

\* The files on_tls_init can leave at the path before it loads from it.
CertificateAfterTlsInit(f) ==
    IF MustWriteCertificate(f)
    THEN WriteOutcomes(f, certificate_manager_generate)
    ELSE { f }

\* use_certificate_chain_file / use_private_key_file (lines 113-114) throw
\* on a file that is missing or does not parse (a partial file that still
\* parses loads); `after` is the file as lines 104-110 left it.
TlsInitThrows(after) == after \in {NoFile, PemCorrupt, PemTruncated}

\* ------------------------------------------- AddTorrentDialog: priorities

\* lt::download_priority_t values the dialog uses.
dont_download == 0
low_priority == 1
default_priority == 4
top_priority == 7
Priorities == { dont_download, low_priority, default_priority, top_priority }
\* Every value a download_priority_t (a std::uint8_t) read from memory can
\* hold.
AnyPriority == 0..255

\* Files of the largest torrent handed to the dialog.
MaxFiles == 2

\* m_params: a multi-file torrent (index 0) and a single-file one (index 1).
Torrents == { 0, 1 }
NumFiles(t) == IF t = 0 THEN MaxFiles ELSE 1
FileIndexes(t) == 0..(NumFiles(t) - 1)

\* The selections of the files view of torrent t (m_filesView->
\* GetSelections): the selected file items, each once, in the order of
\* selection, an item standing as the index of its file.
FileIndices(t) ==
    { q \in UNION { [1..n -> FileIndexes(t)] : n \in 0..NumFiles(t) } :
        \A i, j \in 1..Len(q) : i # j => q[i] # q[j] }
AllFileIndices == UNION { FileIndices(t) : t \in Torrents }

\* wxDataViewItemArray::IsEmpty
IsEmpty(items) == items = << >>

\* m_filesModel->GetFileIndices(items): the file index of each item.
GetFileIndices(items) == items

\* std::vector::size(); the element at index i of vector v is v[i + 1].
size(v) == Len(v)
at(v, i) == v[i + 1]

\* std::vector::resize(n, fill).
resize(v, n, fill) ==
    IF n <= size(v) THEN SubSeq(v, 1, n)
    ELSE v \o [k \in 1..(n - size(v)) |-> fill]

\* One round of the loop of SetFilePriorities, with a new slot filled with
\* the priority being set.
SetOnePriority_FillsWithPrio(v, idx, prio) ==
    LET w == IF size(v) <= idx THEN resize(v, idx + 1, prio) ELSE v
    IN [w EXCEPT ![idx + 1] = prio]

\* One round of the loop of SetFilePriorities.
SetOnePriority(v, idx, prio) ==
    LET w == IF size(v) <= idx THEN resize(v, idx + 1, default_priority) ELSE v
    IN [w EXCEPT ![idx + 1] = prio]

\* The loop of SetFilePriorities over fileIndices.
RECURSIVE SetPriorities(_, _, _)
SetPriorities(v, fileIndices, prio) ==
    IF fileIndices = << >> THEN v
    ELSE SetPriorities(SetOnePriority(v, Head(fileIndices), prio),
                       Tail(fileIndices), prio)

\* ShowFileContextMenu: the read of file_priorities[fileIndices[0]] is made
\* whenever the vector is not empty.
FirstPrioIsRead(v, fileIndices) == size(v) > 0
FirstPrioReadOutside(v, fileIndices) ==
    FirstPrioIsRead(v, fileIndices) /\ fileIndices[1] >= size(v)

\* The values firstPrio can get: a read past the end of the vector is
\* undefined and may give any value (or end the process, see
\* ShowFileContextMenu).
FirstPrio(v, fileIndices) ==
    IF ~FirstPrioIsRead(v, fileIndices) THEN { default_priority }
    ELSE IF FirstPrioReadOutside(v, fileIndices) THEN AnyPriority
    ELSE { at(v, fileIndices[1]) }

\* The lambda of std::all_of: it reads index i only below size().
PrioOrDefault(v, i) == IF size(v) >= i + 1 THEN at(v, i) ELSE default_priority
allSamePrio(v, fileIndices, firstPrio) ==
    \A k \in 1..Len(fileIndices) : firstPrio = PrioOrDefault(v, fileIndices[k])

\* The menu items that get a check mark.
CheckedItems(v, fileIndices, firstPrio) ==
    { p \in Priorities : allSamePrio(v, fileIndices, firstPrio) /\ firstPrio = p }

\* What the user does with the popup menu: picks a priority or dismisses it.
Dismiss == { }
MenuChoices == { {p} : p \in Priorities } \cup { Dismiss }

\* ------------------------------------------- Application: the command line

\* Strings of the command line are sequences of characters.
MagnetPrefix == << "m", "a", "g", "n", "e", "t", ":", "?", "x", "t" >>
\* std::filesystem::current_path(), with its trailing separator.
current_path == << "/", "w", "/" >>

\* Parameters a command line can hold: a magnet link, the bare prefix, a
\* cut prefix, the prefix after another character, a relative and an
\* absolute file path.
Params ==
    { MagnetPrefix \o << "=", "1" >>,
      MagnetPrefix,
      SubSeq(MagnetPrefix, 1, 7),
      << "a" >> \o MagnetPrefix,
      << "a", ".", "t" >>,
      << "/", "a" >> }

\* Parameters on one command line.
MaxParams == 2
CommandLines == UNION { [1..n -> Params] : n \in 0..MaxParams }

\* std::string::npos, as an index no string has.
npos == 0 - 1

\* std::string::rfind(pat, pos): the last index at or before pos where pat
\* starts, npos when there is none.
RECURSIVE rfindFrom(_, _, _)
rfindFrom(s, pat, i) ==
    IF i < 0 THEN npos
    ELSE IF SubSeq(s, i + 1, i + Len(pat)) = pat THEN i
    ELSE rfindFrom(s, pat, i - 1)
rfind(s, pat, pos) ==
    IF Len(pat) > Len(s) THEN npos
    ELSE rfindFrom(s, pat, IF pos < Len(s) - Len(pat) THEN pos ELSE Len(s) - Len(pat))

\* The test with the prefix looked for anywhere in the argument.
IsMagnetLink_Anywhere(arg) == rfind(arg, MagnetPrefix, Len(arg)) # npos

\* arg.rfind("magnet:?xt", 0) == 0
IsMagnetLink(arg) == rfind(arg, MagnetPrefix, 0) = 0

\* std::filesystem::absolute(arg).string()
absolute(arg) == IF Head(arg) = "/" THEN arg ELSE current_path \o arg

\* m_options of a constructed Application.
NoOptions == [files |-> << >>, magnets |-> << >>]

\* The loop of OnCmdLineParsed over the parameters.
RECURSIVE OnCmdLineParsed(_, _)
OnCmdLineParsed(options, params) ==
    IF params = << >> THEN options
    ELSE LET arg == Head(params)
         IN OnCmdLineParsed(
                IF IsMagnetLink(arg)
                THEN [options EXCEPT !.magnets = Append(@, arg)]
                ELSE [options EXCEPT !.files = Append(@, absolute(arg))],
                Tail(params))

\* The JSON object ActivateOtherInstance builds from m_options.
Payload(options) == [files |-> options.files, magnet_links |-> options.magnets]

VARIABLES
    cfg_token,          \* configuration: websocket_access_token
    cfg_writes,         \* calls of set_websocket_access_token so far
    cfg_changes,        \* changes of the token made in the store by others
    cert_file,          \* the file at websocket_certificate_file
    cert_writes,        \* writes that changed that file so far
    cert_generates,     \* calls of certificate_manager::generate so far
    tls_builds,         \* calls of on_tls_init so far
    app_pc,             \* application thread: lifecycle of the server object
    net_pc,             \* network thread: position in run()
    listening,          \* the endpoint of this server has listened
    spawned,            \* threads start() has spawned so far
    joined,             \* threads bg_.join() has joined so far
    io_stopped,         \* io_service stopped flag
    crashed,            \* std::terminate was called
    configured_token_,  \* websocket_server::configured_token_
    connections_,       \* websocket_server::connections_
    inst,               \* servers constructed so far
    tokens,             \* configured_token_ of each construction, in order
    next_hdl,           \* next connection handle the endpoint hands out
    st,                 \* per handle: state of the connection
    hdr,                \* per handle: the request it sent
    owner,              \* per handle: the server instance it belongs to
    opens,              \* per handle: on_open calls
    closes,             \* per handle: on_close calls
    file_priorities,    \* AddTorrentDialog: m_params[t].file_priorities
    torrent_selection,  \* AddTorrentDialog: m_torrents->GetSelection()
    read_outside,       \* AddTorrentDialog: the menu shown (or the abort) came
                        \* with a read of file_priorities past its end
    checked,            \* AddTorrentDialog: the checked items of the menu shown
    popup,              \* AddTorrentDialog: the menu PopupMenu is showing
    aborted,            \* AddTorrentDialog: the process was aborted
    boot_pc,            \* Application: position of the process start
    argv,               \* Application: the command line parameters
    another_running,    \* Application: m_singleInstance->IsAnotherRunning()
    m_options,          \* Application: m_options (files, magnets)
    cmdline_ok,         \* Application: what wxApp::OnInit returned
    connected,          \* Application: MakeConnection returned a connection
    executed,           \* Application: what conn->Execute was given
    migrated,           \* Application: db->Migrate() ran
    plugins_loaded,     \* Application: the plugin directory was scanned
    main_frame,         \* Application: the main frame was created
    init_result         \* Application: what OnInit returned

vars == << cfg_token, cfg_writes, cfg_changes, spawned, joined, cert_file, cert_writes,
           cert_generates, tls_builds, app_pc,
           net_pc, listening, io_stopped, crashed, configured_token_,
           connections_, inst,
           tokens, next_hdl, st, hdr, owner, opens, closes,
           file_priorities, torrent_selection, read_outside, checked, popup,
           aborted,
           boot_pc, argv, another_running, m_options, cmdline_ok, connected,
           executed, migrated, plugins_loaded, main_frame, init_result >>

cfg_vars == << cfg_token, cfg_writes, cfg_changes >>
cert_vars == << cert_file, cert_writes, cert_generates, tls_builds >>
conn_vars == << next_hdl, st, hdr, owner, opens, closes >>
dlg_vars == << file_priorities, torrent_selection, read_outside, checked, popup,
              aborted >>
boot_vars == << boot_pc, argv, another_running, m_options, cmdline_ok, connected,
               executed, migrated, plugins_loaded, main_frame, init_result >>
gui_vars == << dlg_vars, boot_vars >>
server_vars == << cfg_vars, cert_vars, app_pc, spawned, joined, net_pc, listening,
                 io_stopped, crashed,
                 configured_token_, connections_, inst, tokens, conn_vars >>

Init ==
    /\ cfg_token \in {EmptyString, PreToken}
    /\ cfg_writes = 0
    /\ cfg_changes = 0
    /\ spawned = 0
    /\ joined = 0
    /\ cert_file \in {NoFile, PemValid, PemCorrupt}
    /\ cert_writes = 0
    /\ cert_generates = 0
    /\ tls_builds = 0
    /\ app_pc = "none"
    /\ net_pc = "none"
    /\ listening = FALSE
    /\ io_stopped = FALSE
    /\ crashed = FALSE
    /\ configured_token_ = EmptyString
    /\ connections_ = {}
    /\ inst = 0
    /\ tokens = << >>
    /\ next_hdl = 1
    /\ st = [h \in Handles |-> "unused"]
    /\ hdr = [h \in Handles |-> NoHeader]
    /\ owner = [h \in Handles |-> 0]
    /\ opens = [h \in Handles |-> 0]
    /\ closes = [h \in Handles |-> 0]
    /\ file_priorities = [t \in Torrents |-> << >>]
    /\ torrent_selection = 0
    /\ read_outside = FALSE
    /\ checked = { }
    /\ popup = << >>
    /\ aborted = FALSE
    /\ boot_pc = "none"
    /\ argv = << >>
    /\ another_running = FALSE
    /\ m_options = NoOptions
    /\ cmdline_ok = FALSE
    /\ connected = FALSE
    /\ executed = << >>
    /\ migrated = FALSE
    /\ plugins_loaded = FALSE
    /\ main_frame = FALSE
    /\ init_result = "none"

\* ------------------------------------------------------ application thread

\* websocket_server::websocket_server, lines 33-41: the token this
\* construction ends with, given the configured one and what generate gave.
ProvisionedToken(configured, generated) ==
    IF empty(configured) THEN generated ELSE configured

\* websocket_server::websocket_server
Construct ==
    /\ ~crashed
    /\ app_pc = "none"
    /\ inst < MaxConstructions
    /\ \E g \in (IF empty(cfg_token) THEN generate(DEFAULT_TOKEN_SIZE)
                 ELSE {EmptyString}) :
         /\ configured_token_' = ProvisionedToken(cfg_token, g)
         /\ IF empty(cfg_token)
              THEN /\ cfg_token' = configured_token_'
                   /\ cfg_writes' = cfg_writes + 1
                   /\ UNCHANGED cfg_changes
              ELSE UNCHANGED cfg_vars
         /\ tokens' = Append(tokens, configured_token_')
    /\ connections_' = {}
    /\ io_stopped' = FALSE
    /\ net_pc' = "none"
    /\ listening' = FALSE
    /\ inst' = inst + 1
    /\ app_pc' = "created"
    /\ UNCHANGED << gui_vars, cert_vars, spawned, joined, crashed, conn_vars >>

\* websocket_server::start, line 50: a std::thread on run() is constructed
\* and move-assigned to bg_. Nothing keeps the owner from calling it again:
\* on a started server the new thread starts beside the one bg_ holds, and
\* the assignment to a joinable std::thread calls std::terminate; on a
\* stopped server the new thread runs run() once more, on the endpoint that
\* has listened already.
Start ==
    /\ ~crashed
    /\ app_pc \in {"created", "started", "stopped"}
    /\ spawned < MaxStarts
    /\ spawned' = spawned + 1
    /\ IF app_pc = "started"
       THEN /\ crashed' = TRUE
            /\ UNCHANGED << app_pc, net_pc >>
       ELSE /\ app_pc' = "started"
            /\ net_pc' = "listen"
            /\ UNCHANGED crashed
    /\ UNCHANGED << gui_vars, cfg_vars, cert_vars, joined, listening, io_stopped,
                    configured_token_, connections_, inst, tokens, conn_vars >>

\* stop() that empties the registry from the application thread before it
\* stops the io_service.
StopSignal_ClearsRegistry ==
    /\ ~crashed
    /\ app_pc = "started"
    /\ io_stopped' = TRUE
    /\ app_pc' = "joining"
    /\ connections_' = {}
    /\ UNCHANGED << gui_vars, cfg_vars, cert_vars, net_pc, listening, spawned, joined, crashed,
                    configured_token_, inst, tokens, conn_vars >>

\* websocket_server::stop, line 55: srv_->get_io_service().stop()
StopSignal ==
    /\ ~crashed
    /\ app_pc = "started"
    /\ io_stopped' = TRUE
    /\ app_pc' = "joining"
    /\ UNCHANGED << gui_vars, cfg_vars, cert_vars, net_pc, listening, spawned, joined, crashed,
                    configured_token_, connections_, inst, tokens, conn_vars >>

\* stop() without the join of line 56 (a detached thread).
JoinReturns_NoWait == TRUE

\* bg_.join() returns once the thread function has returned.
JoinReturns == net_pc = "exited"

\* stop() that drops the remaining connections once the thread is joined.
StopJoin_ClosesConnections ==
    /\ ~crashed
    /\ app_pc = "joining"
    /\ JoinReturns
    /\ app_pc' = "stopped"
    /\ joined' = joined + 1
    /\ connections_' = {}
    /\ UNCHANGED << gui_vars, cfg_vars, cert_vars, net_pc, listening, spawned, io_stopped, crashed,
                    configured_token_, inst, tokens, conn_vars >>

\* websocket_server::stop, line 56: bg_.join()
StopJoin ==
    /\ ~crashed
    /\ app_pc = "joining"
    /\ JoinReturns
    /\ app_pc' = "stopped"
    /\ joined' = joined + 1
    /\ UNCHANGED << gui_vars, cfg_vars, cert_vars, net_pc, listening, spawned, io_stopped, crashed,
                    configured_token_, connections_, inst, tokens, conn_vars >>

\* websocket_server::~websocket_server, of a server that was never started
\* or has been stopped.
Destroy ==
    /\ ~crashed
    /\ app_pc \in {"created", "stopped"}
    /\ app_pc' = "none"
    /\ UNCHANGED << gui_vars, cfg_vars, cert_vars, net_pc, listening, spawned, joined, io_stopped, crashed,
                    configured_token_, connections_, inst, tokens, conn_vars >>

\* ---------------------------------------------------------- network thread

\* The endpoint dispatches handlers from srv_->run() until the io_service
\* is stopped.
Dispatching == ~crashed /\ net_pc = "loop" /\ ~io_stopped

\* start_accept: the endpoint creates the connection object that will take
\* the next client and asks on_tls_init for its TLS context. `base` is the
\* connection table the caller leaves. An exception of on_tls_init is
\* caught nowhere on the network thread: std::terminate. Past MaxConns
\* connection objects the new object is built all the same, but no client
\* ever connects to it and the table does not list it.
StartAccept(base) ==
    /\ tls_builds' = tls_builds + 1
    /\ cert_file' \in CertificateAfterTlsInit(cert_file)
    /\ cert_generates' =
          cert_generates + (IF MustWriteCertificate(cert_file) THEN 1 ELSE 0)
    /\ cert_writes' = cert_writes + (IF cert_file' # cert_file THEN 1 ELSE 0)
    /\ crashed' = TlsInitThrows(cert_file')
    /\ IF next_hdl \in Handles
       THEN /\ st' = [base EXCEPT ![next_hdl] =
                        IF TlsInitThrows(cert_file') THEN "failed" ELSE "pending"]
            /\ owner' = [owner EXCEPT ![next_hdl] = inst]
            /\ next_hdl' = next_hdl + 1
       ELSE /\ st' = base
            /\ UNCHANGED << owner, next_hdl >>

\* run, line 127: srv_->listen(port). It throws when the port cannot be
\* bound, and always when the endpoint has listened before: stop() (lines
\* 55-56) stops the io_service and leaves the acceptor open, and the
\* endpoint refuses a second listen(). Nothing on the network thread
\* catches: std::terminate.
NetListen ==
    /\ ~crashed
    /\ net_pc = "listen"
    /\ \/ /\ ~listening
          /\ net_pc' = "accept"
          /\ listening' = TRUE
          /\ UNCHANGED crashed
       \/ /\ crashed' = TRUE
          /\ UNCHANGED << net_pc, listening >>
    /\ UNCHANGED << gui_vars, cfg_vars, cert_vars, app_pc, spawned, joined, io_stopped,
                    configured_token_, connections_, inst, tokens, conn_vars >>

\* run, line 128: srv_->start_accept()
NetStartAccept ==
    /\ ~crashed
    /\ net_pc = "accept"
    /\ StartAccept(st)
    /\ net_pc' = IF crashed' THEN "accept" ELSE "loop"
    /\ UNCHANGED << gui_vars, cfg_vars, app_pc, spawned, joined, listening, io_stopped,
                    configured_token_, connections_, inst, tokens, hdr, opens, closes >>

\* run, line 129: srv_->run() returns once the io_service is stopped, and
\* the thread function with it.
NetExit ==
    /\ ~crashed
    /\ net_pc = "loop"
    /\ io_stopped
    /\ net_pc' = "exited"
    /\ UNCHANGED << gui_vars, cfg_vars, cert_vars, app_pc, spawned, joined, listening,
                    io_stopped, crashed,
                    configured_token_, connections_, inst, tokens, conn_vars >>

\* A client connects to the pending connection object and sends its
\* handshake request; the endpoint re-arms the accept.
HandleAccept(h, req) ==
    /\ Dispatching
    /\ st[h] = "pending"
    /\ owner[h] = inst
    /\ hdr' = [hdr EXCEPT ![h] = req]
    /\ StartAccept([st EXCEPT ![h] = "handshake"])
    /\ UNCHANGED << gui_vars, cfg_vars, app_pc, spawned, joined, net_pc, listening, io_stopped, configured_token_,
                    connections_, inst, tokens, opens, closes >>

\* on_validate comparing against the configuration store instead of the
\* copy taken at construction.
Validate_ReadsConfig(h) ==
    /\ Dispatching
    /\ st[h] = "handshake"
    /\ owner[h] = inst
    /\ st' = [st EXCEPT ![h] =
                IF on_validate(hdr[h], cfg_token)
                  THEN "accepted" ELSE "rejected"]
    /\ UNCHANGED << gui_vars, cfg_vars, cert_vars, app_pc, spawned, joined, net_pc, listening, io_stopped,
                    crashed, configured_token_, connections_, inst, tokens,
                    next_hdl, hdr, owner, opens, closes >>

\* The validate handler (line 31) decides the handshake.
Validate(h) ==
    /\ Dispatching
    /\ st[h] = "handshake"
    /\ owner[h] = inst
    /\ st' = [st EXCEPT ![h] =
                IF on_validate(hdr[h], configured_token_)
                  THEN "accepted" ELSE "rejected"]
    /\ UNCHANGED << gui_vars, cfg_vars, cert_vars, app_pc, spawned, joined, net_pc, listening, io_stopped, crashed,
                    configured_token_, connections_, inst, tokens, next_hdl,
                    hdr, owner, opens, closes >>

\* on_open that forgets the insert.
on_open_NoInsert(conns, h) == conns

\* on_close that forgets the erase.
on_close_NoErase(conns, h) == conns

\* websocket_server::on_open: connections_.insert(hdl)
on_open(conns, h) == conns \cup {h}

\* websocket_server::on_close: connections_.erase(hdl)
on_close(conns, h) == conns \ {h}

\* The open handler (line 29) fires once the accepted handshake's response
\* has been written.
Open(h) ==
    /\ Dispatching
    /\ st[h] = "accepted"
    /\ owner[h] = inst
    /\ connections_' = on_open(connections_, h)
    /\ opens' = [opens EXCEPT ![h] = @ + 1]
    /\ st' = [st EXCEPT ![h] = "open"]
    /\ UNCHANGED << gui_vars, cfg_vars, cert_vars, app_pc, spawned, joined, net_pc, listening, io_stopped, crashed,
                    configured_token_, inst, tokens, next_hdl, hdr, owner,
                    closes >>

\* websocket_server::on_message: an empty body. The message handler
\* (line 28) fires for a frame of an open connection and changes nothing.
Message(h) ==
    /\ Dispatching
    /\ st[h] = "open"
    /\ owner[h] = inst
    /\ UNCHANGED vars

\* The close handler (line 27) fires when an open connection ends.
Close(h) ==
    /\ Dispatching
    /\ st[h] = "open"
    /\ owner[h] = inst
    /\ connections_' = on_close(connections_, h)
    /\ closes' = [closes EXCEPT ![h] = @ + 1]
    /\ st' = [st EXCEPT ![h] = "closed"]
    /\ UNCHANGED << gui_vars, cfg_vars, cert_vars, app_pc, spawned, joined, net_pc, listening, io_stopped, crashed,
                    configured_token_, inst, tokens, next_hdl, hdr, owner,
                    opens >>

Next ==
    \/ Construct
    \/ Start
    \/ StopSignal
    \/ StopJoin
    \/ Destroy
    \/ NetListen
    \/ NetStartAccept
    \/ NetExit
    \/ \E h \in Handles, req \in Requests : HandleAccept(h, req)
    \/ \E h \in Handles : Validate(h)
    \/ \E h \in Handles : Open(h)
    \/ \E h \in Handles : Message(h)
    \/ \E h \in Handles : Close(h)

Spec == Init /\ [][Next]_vars

\* The scheduler runs the network thread and lets a join that can return
\* return.
FairSpec ==
    /\ Spec
    /\ WF_vars(NetListen)
    /\ WF_vars(NetStartAccept)
    /\ WF_vars(NetExit)
    /\ WF_vars(StopJoin)

\* ---------------------------------------- the configuration store changes

\* Tokens another part of the application may put in the store.
ConfigChoices == { PreToken, <<1>> }

\* configuration::set_websocket_access_token, called by someone else than
\* the server while the server exists.
SetConfigToken(t) ==
    /\ ~crashed
    /\ app_pc \in {"created", "started"}
    /\ cfg_changes < MaxCfgChanges
    /\ t # cfg_token
    /\ cfg_token' = t
    /\ cfg_changes' = cfg_changes + 1
    /\ UNCHANGED << gui_vars, cfg_writes, cert_vars, app_pc, spawned, joined, net_pc, listening, io_stopped,
                    crashed, configured_token_, connections_, inst, tokens,
                    conn_vars >>

\* A store that holds a token and a certificate file that exists: neither
\* the generation of a token nor the certificate matters to what a change
\* of the store does to admission.
InitCfg == Init /\ cfg_token = PreToken /\ cert_file = PemValid

NextCfg ==
    \/ Next
    \/ \E t \in ConfigChoices : SetConfigToken(t)

SpecCfg == InitCfg /\ [][NextCfg]_vars

\* ------------------------------------------------------- AddTorrentDialog

\* wxEVT_CHOICE on the torrent list: Load(evt.GetInt()). It can come while
\* a context menu is up. (What Load and UpdatePriorities make the files
\* model show is state of the files model, which is not part of the model.)
SelectTorrent(t) ==
    /\ ~aborted
    /\ t # torrent_selection
    /\ torrent_selection' = t
    /\ UNCHANGED << server_vars, boot_vars, file_priorities, read_outside, checked,
                    popup, aborted >>

\* AddTorrentDialog::SetFilePriorities, called by the files model with the
\* items whose priority the user set in the files view.
SetFilePriorities(items, prio) ==
    /\ ~aborted
    /\ popup = << >>
    /\ file_priorities' =
           [file_priorities EXCEPT
               ![torrent_selection] = SetPriorities(@, GetFileIndices(items), prio)]
    /\ UNCHANGED << server_vars, boot_vars, torrent_selection, read_outside, checked,
                    popup, aborted >>

\* AddTorrentDialog::ShowFileContextMenu up to PopupMenu (lines 369-430):
\* with no item selected it returns; else it works out the check marks and
\* shows the menu, whose event loop lets other events in. A read past the
\* end of file_priorities gives any value, or aborts the process where
\* operator[] is checked.
ShowFileContextMenu(items) ==
    LET v == file_priorities[torrent_selection]
        fileIndices == GetFileIndices(items)
    IN
    /\ ~aborted
    /\ popup = << >>
    /\ IF IsEmpty(items)
       THEN UNCHANGED vars
       ELSE /\ read_outside' = FirstPrioReadOutside(v, fileIndices)
            /\ \/ /\ checked' \in { CheckedItems(v, fileIndices, firstPrio) :
                                     firstPrio \in FirstPrio(v, fileIndices) }
                  /\ popup' = << [items |-> items] >>
                  /\ UNCHANGED aborted
               \/ /\ FirstPrioReadOutside(v, fileIndices)
                  /\ aborted' = TRUE
                  /\ UNCHANGED << checked, popup >>
            /\ UNCHANGED << server_vars, boot_vars, file_priorities,
                            torrent_selection >>

\* PopupMenu returns (lines 409-432): the user picked an item, whose
\* handler calls SetFilePriorities(items, prio) on the torrent selected by
\* then, or dismissed the menu; the menu is destroyed.
PopupMenuReturns(choice) ==
    /\ ~aborted
    /\ popup # << >>
    /\ file_priorities' =
           IF choice = Dismiss THEN file_priorities
           ELSE [file_priorities EXCEPT
                    ![torrent_selection] =
                        SetPriorities(@, GetFileIndices(popup[1].items),
                                      CHOOSE p \in choice : TRUE)]
    /\ popup' = << >>
    /\ checked' = { }
    /\ read_outside' = FALSE
    /\ UNCHANGED << server_vars, boot_vars, torrent_selection, aborted >>

\* The dialog as constructed: Select(0), Load(0), no priorities set.
InitDialog == Init /\ cfg_token = PreToken /\ cert_file = PemValid

NextDialog ==
    \/ \E t \in Torrents : SelectTorrent(t)
    \/ \E items \in FileIndices(torrent_selection), prio \in Priorities :
           SetFilePriorities(items, prio)
    \/ \E items \in FileIndices(torrent_selection) : ShowFileContextMenu(items)
    \/ \E choice \in MenuChoices : PopupMenuReturns(choice)

SpecDialog == InitDialog /\ [][NextDialog]_vars

\* ------------------------------------------------------------ Application

\* The process is started with a command line, while another instance
\* runs or not.
Launch(params, running) ==
    /\ boot_pc = "none"
    /\ boot_pc' = "launched"
    /\ argv' = params
    /\ another_running' = running
    /\ UNCHANGED << server_vars, dlg_vars, m_options, cmdline_ok, connected,
                    executed, migrated, plugins_loaded, main_frame, init_result >>

\* Application::ActivateOtherInstance: the payload is executed on the
\* connection when MakeConnection gave one.
ActivateOtherInstance(options, conn) ==
    IF conn THEN << Payload(options) >> ELSE << >>

\* Application::OnInit. base is what wxApp::OnInit returns (it calls
\* OnCmdLineParsed when the command line parses), conn whether
\* MakeConnection gives a connection, migrate what db->Migrate() returns.
OnInit(base, conn, migrate) ==
    /\ boot_pc = "launched"
    /\ boot_pc' = "done"
    /\ cmdline_ok' = base
    /\ m_options' = IF base THEN OnCmdLineParsed(m_options, argv) ELSE m_options
    /\ IF ~base
       THEN /\ init_result' = "false"
            /\ UNCHANGED << connected, executed, migrated, plugins_loaded, main_frame >>
       ELSE IF another_running
       THEN /\ connected' = conn
            /\ executed' = ActivateOtherInstance(m_options', conn)
            /\ init_result' = "false"
            /\ UNCHANGED << migrated, plugins_loaded, main_frame >>
       ELSE /\ migrated' = TRUE
            /\ plugins_loaded' = migrate
            /\ main_frame' = migrate
            /\ init_result' = IF migrate THEN "true" ELSE "false"
            /\ UNCHANGED << connected, executed >>
    /\ UNCHANGED << server_vars, dlg_vars, argv, another_running >>

InitApplication == Init /\ cfg_token = PreToken /\ cert_file = PemValid

NextApplication ==
    \/ \E params \in CommandLines, running \in BOOLEAN : Launch(params, running)
    \/ \E base \in BOOLEAN, conn \in BOOLEAN, migrate \in BOOLEAN :
           OnInit(base, conn, migrate)

SpecApplication == InitApplication /\ [][NextApplication]_vars

\* ------------------------------------------------------------- properties

\* The handshake of h has been decided by on_validate.
Validated(h) == st[h] \in {"accepted", "rejected", "open", "closed"}

\* The AccessToken of the server instance h connected to.
TokenOf(h) == tokens[owner[h]]

\* C1: a handshake without the X-PicoTorrent-Token header, or with an empty
\* one, is rejected and its connection never opens, whatever the token.
C1_MissingOrEmptyHeaderRejected ==
    \A h \in Handles :
        (Validated(h) /\ (~hdr[h].present \/ hdr[h].value = EmptyString))
            => /\ st[h] = "rejected"
               /\ opens[h] = 0
               /\ h \notin connections_

C1_Witness ==
    \E h, g \in Handles :
        /\ st[h] = "rejected" /\ ~hdr[h].present
        /\ st[g] = "rejected" /\ hdr[g].present /\ hdr[g].value = EmptyString
        /\ TokenOf(g) = EmptyString

\* C2: a handshake whose header value differs from the AccessToken is
\* rejected and its connection never opens.
C2_WrongHeaderRejected ==
    \A h \in Handles :
        (Validated(h) /\ hdr[h].present /\ hdr[h].value # TokenOf(h))
            => /\ st[h] = "rejected"
               /\ opens[h] = 0
               /\ h \notin connections_

C2_Witness ==
    \E h, g \in Handles :
        /\ st[h] = "rejected" /\ hdr[h] = [present |-> TRUE, value |-> <<1>>]
        /\ st[g] = "rejected" /\ hdr[g] = [present |-> TRUE, value |-> <<1, 2, 1>>]
        /\ TokenOf(h) = PreToken /\ TokenOf(g) = PreToken

\* C3: a handshake whose header value equals the AccessToken is accepted,
\* and exactly one open event fires for its connection.
C3_EqualHeaderAcceptedOpensOnce ==
    \A h \in Handles :
        (Validated(h) /\ hdr[h].present /\ hdr[h].value = TokenOf(h))
            => /\ st[h] # "rejected"
               /\ opens[h] <= 1
               /\ (st[h] \in {"open", "closed"} => opens[h] = 1)

\* C4: the registry holds only handles that passed admission; on_open is
\* never called for a rejected handshake, which leaves the registry alone.
C4_RegistryOnlyAdmitted ==
    /\ \A h \in Handles :
          (h \in connections_ \/ opens[h] > 0)
              => /\ hdr[h].present
                 /\ hdr[h].value # EmptyString
                 /\ hdr[h].value = TokenOf(h)
    /\ \A h \in Handles :
          st[h] = "rejected" => (opens[h] = 0 /\ h \notin connections_)
    /\ (\A h \in Handles : st[h] \notin {"open", "closed"}) => connections_ = {}

C4_Witness ==
    \E h, g \in Handles :
        /\ st[h] = "rejected" /\ hdr[h].present /\ hdr[h].value = GenTokenA
        /\ st[g] = "open" /\ connections_ = {g}

\* C5: the registry is the set of handles opened and not yet closed, each
\* once: its size is the number of opens less the number of closes.
C5_RegistryIsOpenedNotClosed ==
    /\ connections_ =
         {h \in Handles : owner[h] = inst /\ opens[h] = 1 /\ closes[h] = 0}
    /\ \A h \in Handles : opens[h] <= 1 /\ closes[h] <= opens[h]

C5_Witness ==
    \E h \in Handles :
        /\ opens[h] = 1 /\ closes[h] = 1 /\ owner[h] = inst
        /\ connections_ = {}

\* C6: the close event fires at most once for a connection, and after it
\* the handle is not a member of the registry.
C6_ClosedOnceNeverMember ==
    \A h \in Handles :
        /\ closes[h] <= 1
        /\ closes[h] >= 1 => h \notin connections_

C6_Witness ==
    \E h, g \in Handles :
        /\ closes[h] = 1 /\ st[h] = "closed"
        /\ g # h /\ g \in connections_

\* C7: stop() has returned only if the network thread has terminated: run()
\* has returned and no callback can be dispatched any more.
C7_StopReturnsAfterThreadExit ==
    app_pc = "stopped" => (net_pc = "exited" /\ ~Dispatching)

C7_Witness ==
    /\ app_pc = "stopped"
    /\ \E h \in Handles : st[h] = "open" /\ owner[h] = inst

\* C8: two constructions against one configuration store end with the same
\* token; with no token configured they write the store exactly once, the
\* token generated being DEFAULT_TOKEN_SIZE long; a configured token is
\* taken as it is and nothing is written.
C8_TokenProvisioningIdempotent ==
    inst >= 2 =>
        /\ tokens[1] = tokens[2]
        /\ cfg_writes <= 1
        /\ cfg_writes = 1 => Len(tokens[1]) = DEFAULT_TOKEN_SIZE
        /\ cfg_writes = 0 => (tokens[1] = cfg_token /\ ~empty(cfg_token))

\* C9: the AccessToken of a constructed server is never empty.
C9_TokenNeverEmpty ==
    \A i \in 1..Len(tokens) : ~empty(tokens[i])

\* C10: once a file exists at the certificate path, no TLS context build
\* (of any server instance) writes it or changes it, corrupt or not.
C10_ExistingCertificateUntouched ==
    [][file_exists(cert_file)
         => /\ cert_file' = cert_file
            /\ cert_writes' = cert_writes
            /\ cert_generates' = cert_generates]_vars

C10_Witness ==
    /\ tls_builds >= 2
    /\ inst = 2
    /\ \E h \in Handles : owner[h] = 2
    /\ cert_file = PemValid
    /\ cert_writes = 0

\* C11: with no certificate file, the first TLS context build creates the
\* file with contents before the chain and key are loaded from it;
\* constructing and start() do not create it.
C11_FirstTlsBuildCreatesCertificate ==
    /\ tls_builds = 0 => (cert_writes = 0 /\ cert_generates = 0)
    /\ tls_builds >= 1 => file_exists(cert_file)

\* C12: with a corrupt file at the certificate path the server does not
\* start: construction or start() fails, no network thread runs.
C12_CorruptCertificatePreventsStart ==
    cert_file = PemCorrupt => (app_pc \in {"none", "created"} /\ net_pc = "none")

\* C13: a TLS context build that fails ends only the connection it was
\* for: the process, the network thread and its event loop stay alive.
C13_TlsFailureKeepsServerAlive ==
    \A h \in Handles : st[h] = "failed" => ~crashed

\* C14: a port that cannot be bound does not bring the host application
\* down: run() stopping at listen never ends in std::terminate.
C14_ListenFailureDoesNotCrash ==
    ~(crashed /\ net_pc = "listen")

\* C16: start() spawns exactly one thread on run(): there is never more
\* than one thread that was spawned and not joined, a started server has
\* one, and no thread runs before start().
C16_OneNetworkThread ==
    /\ spawned - joined <= 1
    /\ app_pc \in {"started", "joining"} => spawned - joined = 1
    /\ app_pc \in {"none", "created"} => spawned = joined

\* C17: the registry changes only in an on_open or on_close step of the
\* network thread's loop, or in a construction while no network thread
\* exists; start() and stop() never touch it.
C17_RegistryOnlyOnNetworkThread ==
    [][connections_' # connections_ =>
         \/ /\ net_pc = "loop" /\ ~io_stopped
            /\ UNCHANGED << app_pc, net_pc, spawned, joined >>
            /\ \E h \in Handles : opens'[h] # opens[h] \/ closes'[h] # closes[h]
         \/ /\ app_pc = "none"
            /\ net_pc \in {"none", "exited"}]_vars

C17_Witness ==
    /\ app_pc = "joining"
    /\ net_pc = "loop"
    /\ Cardinality(connections_) = 1

\* C18: admission uses the token copied at construction: a later change of
\* the configured token changes neither the copy nor which headers pass.
C18_AdmissionUsesConstructionToken ==
    /\ inst >= 1 => configured_token_ = tokens[inst]
    /\ \A h \in Handles :
          Validated(h) =>
              ((st[h] # "rejected")
                 <=> (/\ hdr[h].present
                      /\ hdr[h].value # EmptyString
                      /\ hdr[h].value = TokenOf(h)))

C18_Witness ==
    \E h, g \in Handles :
        /\ cfg_changes >= 1
        /\ st[h] = "rejected" /\ hdr[h].present /\ hdr[h].value = cfg_token
        /\ st[g] = "open" /\ hdr[g].value # cfg_token
        /\ TokenOf(h) # cfg_token

\* C19: once stop() is called after start(), it eventually returns.
C19_StopEventuallyReturns ==
    (app_pc = "joining") ~> (app_pc = "stopped")

\* C20: from the call of stop() to its return the registry is unchanged and
\* no close event is dispatched.
C20_StopLeavesRegistry ==
    [][(app_pc \in {"started", "joining"} /\ app_pc' \in {"joining", "stopped"})
         => (connections_' = connections_ /\ closes' = closes)]_vars

C20_Witness ==
    /\ app_pc = "stopped"
    /\ Cardinality(connections_) = 2


\* C21: ShowFileContextMenu never reads file_priorities at an index outside
\* the vector, whatever files are selected and whatever earlier
\* SetFilePriorities calls left in the vector.
C21_NeverReadsOutside == ~read_outside /\ ~aborted

\* What SetFilePriorities(fileIndices, prio) has to make of vector v.
C22_Post(v, w, fileIndices, prio) ==
    LET selected == { fileIndices[k] : k \in 1..Len(fileIndices) } IN
    /\ \A i \in selected : size(w) >= i + 1 /\ at(w, i) = prio
    /\ size(w) >= size(v)
    /\ \A i \in 0..(size(w) - 1) :
           i \notin selected =>
               at(w, i) = IF i < size(v) THEN at(v, i) ELSE default_priority

\* A step changes the priorities of the selected torrent only, and never
\* makes its vector shorter.
C22_Step ==
    /\ \A t \in Torrents :
           t # torrent_selection => file_priorities'[t] = file_priorities[t]
    /\ size(file_priorities'[torrent_selection]) >=
           size(file_priorities[torrent_selection])

\* C22: SetFilePriorities sets every selected file index of the selected
\* torrent to prio, grows the vector to hold the largest selected index with
\* new unselected slots at the default priority, never shrinks it, and
\* leaves unselected existing indices and all other torrents as they were.
\* The first part is stated of every vector the dialog holds, for every
\* selection and priority (a menu on screen holds the vectors it was opened
\* on); the second of every step.
C22_SetFilePriorities ==
    /\ [](popup = << >> =>
            \A t \in Torrents, fileIndices \in AllFileIndices, prio \in Priorities :
                C22_Post(file_priorities[t],
                         SetPriorities(file_priorities[t], fileIndices, prio),
                         fileIndices, prio))
    /\ [][C22_Step]_vars

\* The vector of torrent 0 grew from empty to two slots for a priority set
\* on its last file, while torrent 1 kept the priority set before.
C22_Witness ==
    /\ torrent_selection = 0
    /\ file_priorities[0] = << default_priority, top_priority >>
    /\ file_priorities[1] = << low_priority >>

\* The claim's own test of a parameter: its first characters are the prefix.
C23_StartsWithPrefix(arg) ==
    /\ Len(arg) >= Len(MagnetPrefix)
    /\ \A k \in 1..Len(MagnetPrefix) : arg[k] = MagnetPrefix[k]
C23_IsFile(arg) == ~C23_StartsWithPrefix(arg)

\* Every parameter of the command line in exactly one list, in order.
C23_Expected ==
    LET files == SelectSeq(argv, C23_IsFile)
    IN [files |-> [k \in 1..Len(files) |-> absolute(files[k])],
        magnet_links |-> SelectSeq(argv, C23_StartsWithPrefix)]

C23_NothingStarted ==
    init_result = "false" /\ ~migrated /\ ~plugins_loaded /\ ~main_frame

\* C23 as stated: with another instance running, OnInit forwards exactly
\* the parsed parameters (magnet_links for those starting with the prefix,
\* files for the others) and returns false without migration, plugins or
\* main frame.
C23_AlwaysForwards ==
    (boot_pc = "done" /\ another_running) =>
        C23_NothingStarted /\ executed = << C23_Expected >>

\* C23: with another instance running, OnInit returns false without
\* migration, plugins or main frame; it forwards exactly the parsed
\* parameters when the command line parsed and the connection to the running
\* instance was made, and forwards nothing otherwise.
C23_ForwardsWhenConnected ==
    (boot_pc = "done" /\ another_running) =>
        /\ C23_NothingStarted
        /\ executed = IF cmdline_ok /\ connected THEN << C23_Expected >> ELSE << >>

\* A command line with a magnet link and a file was forwarded.
C23_Witness ==
    /\ boot_pc = "done"
    /\ another_running
    /\ cmdline_ok
    /\ connected
    /\ Len(executed) = 1
    /\ Len(executed[1].files) = 1
    /\ Len(executed[1].magnet_links) = 1

====
